---- MODULE Spec2Model ----
(***************************************************************************)
(* Model of the amun decoder front end:                                    *)
(*   - src/amun/common/decoder_main.cpp : main(), the maxi-batch /         *)
(*     mini-batch scheduling loop;                                         *)
(*   - src/amun/gpu/mblas/matrix.h : TMatrix<T>, the growable device       *)
(*     buffer.                                                             *)
(* Three specifications share the variables: Spec runs main() over a       *)
(* bounded input stream, SpecMatrix applies the TMatrix operations to one  *)
(* object, SpecObjects applies them to and between several objects.        *)
(* Device memory is modelled by its allocations (cudaMalloc / cudaFree)    *)
(* and by the calls each operation issues; a cudaMalloc of 0 bytes         *)
(* succeeds and stores the null pointer. The calls a thread issues on its  *)
(* stream take effect in program order.                                    *)
(***************************************************************************)
EXTENDS Integers, Sequences, FiniteSets, TLC

(* ------------------------------ bounds --------------------------------- *)
\* longest input stream (number of lines) that is enumerated
MaxLines == 5
\* largest token count of one input line
MaxLen == 1
\* largest value of the mini-batch / maxi-batch options that is enumerated
MaxBatch == 5
\* workers of the thread pool
NWorkers == 2
\* tasks of one run that end by an exception
MaxFail == 1
\* enqueue calls modelled before the producer is cut off (only reached when
\* the slicing loop does not terminate, i.e. with miniSize = 0)
MaxEnq == MaxLines + 1
\* largest value of the arguments rows, cols, beam, batches of the TMatrix
\* operations when one object is operated on (SpecMatrix)
MaxDim == 2
\* number of TMatrix objects when several are operated on (SpecObjects)
NBuf == 2
\* largest value of the arguments cols, beam, batches in SpecObjects
MaxPairDim == 1
\* device allocations that can exist at a time before the device is out of
\* memory
MaxAllocs == 3

VARIABLES
  \* ---- decoder_main.cpp
  pc,          \* position of main()
  stream,      \* the whole input stream: token count of each line
  lineNum,     \* std::size_t lineNum: lines read so far
  miniSize,    \* god.Get<size_t>("mini-batch")
  maxiSize,    \* god.Get<size_t>("maxi-batch")
  maxiBatch,   \* SentencesPtr maxiBatch: the accumulator
  enqueued,    \* mini-batches handed to the thread pool, in enqueue order
  cycleStart,  \* accumulator as it stood when the last sort-and-slice began
  cycleOut,    \* mini-batches enqueued by the last sort-and-slice cycle
  tasks,       \* state of the task of every enqueued mini-batch
  \* ---- matrix.h
  mat,         \* the TMatrix objects
  heap,        \* state of every device allocation
  devOps,      \* device calls issued by the last TMatrix operation
  last,        \* the last TMatrix operation and its outcome
  conv         \* a TMatrix shape in size_t width and its operator bool

mainVars == <<pc, stream, lineNum, miniSize, maxiSize, maxiBatch, enqueued,
              cycleStart, cycleOut, tasks>>
matVars == <<mat, heap, devOps, last, conv>>
vars == <<pc, stream, lineNum, miniSize, maxiSize, maxiBatch, enqueued,
          cycleStart, cycleOut, tasks, mat, heap, devOps, last, conv>>

(* ------------- matrix.h: operator bool in machine width ---------------- *)

\* A size_t is held as its SizeTBytes bytes, least significant first (a
\* function 1..SizeTBytes -> 0..Byte-1); an int as its IntBytes bytes.

\* values of one byte
Byte == 256
\* sizeof(size_t) of the 64-bit host the CUDA build targets
SizeTBytes == 8
\* sizeof(int)
IntBytes == 4

SizeTZero == [i \in 1..SizeTBytes |-> 0]

\* the size_t value 2^k, k < 8 * SizeTBytes
SizeTPow2(k) ==
  [i \in 1..SizeTBytes |-> IF i = (k \div 8) + 1 THEN 2 ^ (k % 8) ELSE 0]

\* a[1]*b[i] + a[2]*b[i-1] + ... + a[j]*b[i-j+1]
RECURSIVE SumProducts(_, _, _, _)
SumProducts(a, b, i, j) ==
  IF j = 0 THEN 0 ELSE a[j] * b[i - j + 1] + SumProducts(a, b, i, j - 1)

\* carry into byte i of the product a * b
RECURSIVE MulCarry(_, _, _)
MulCarry(a, b, i) ==
  IF i = 1 THEN 0
  ELSE (SumProducts(a, b, i - 1, i - 1) + MulCarry(a, b, i - 1)) \div Byte

\* a * b of two size_t: the product modulo 2^(8 * SizeTBytes)
SizeTMul(a, b) ==
  [i \in 1..SizeTBytes |-> (SumProducts(a, b, i, i) + MulCarry(a, b, i)) % Byte]

\* size() of a shape held in size_t width
sizeWide(m) == SizeTMul(SizeTMul(SizeTMul(m.cols_, m.rows_), m.beam_), m.batches_)

\* (int)x of a size_t x: the low IntBytes bytes
CastInt(x) == [i \in 1..IntBytes |-> x[i]]

IntZero == [i \in 1..IntBytes |-> 0]

\* operator bool()
operatorBool(m) == CastInt(sizeWide(m)) # IntZero

\* exponents of the dimensions 2^k the conversion is applied to
WideExps == {0, 1, 16}

WideDims == {SizeTZero} \cup {SizeTPow2(k) : k \in WideExps}

WideShapes ==
  [rows_ : WideDims, cols_ : WideDims, beam_ : WideDims, batches_ : WideDims]

\* no conversion under way
NoConversion ==
  [obj |-> [rows_ |-> SizeTZero, cols_ |-> SizeTZero, beam_ |-> SizeTZero,
            batches_ |-> SizeTZero],
   called |-> FALSE, result |-> FALSE]

(* ------------------------- generic helpers ----------------------------- *)
Min(a, b) == IF a <= b THEN a ELSE b

RECURSIVE Flatten(_)
\* concatenation of a sequence of sequences
Flatten(ss) == IF ss = <<>> THEN <<>> ELSE Head(ss) \o Flatten(Tail(ss))

\* all sequences over S of length at most n
SeqsUpTo(S, n) == UNION {[1..k -> S] : k \in 0..n}

(* ====================== decoder_main.cpp : main ======================== *)

\* new Sentence(god, lineNum, line): the line number and the tokens of the
\* line; a line is represented by its token count
Sentence(num, line) == [idx |-> num, len |-> line]

RECURSIVE InsertByLength(_, _)
\* insert sentence x into the length-sorted sequence s behind every member
\* that is not longer than x
InsertByLength(s, x) ==
  IF s = <<>> THEN <<x>>
  ELSE IF Head(s).len <= x.len
       THEN <<Head(s)>> \o InsertByLength(Tail(s), x)
       ELSE <<x>> \o s

RECURSIVE SortByLength(_)
\* Sentences::SortByLength(): stable sort by token count, ascending
SortByLength(coll) ==
  IF coll = <<>> THEN <<>>
  ELSE InsertByLength(SortByLength(SubSeq(coll, 1, Len(coll) - 1)),
                      coll[Len(coll)])

\* Sentences::NextMiniBatch(n): removes up to n sentences from the front and
\* returns them as a new batch; rest is what the source keeps
NextMiniBatch(coll, n) ==
  LET k == Min(n, Len(coll))
  IN  [batch |-> SubSeq(coll, 1, k), rest |-> SubSeq(coll, k + 1, Len(coll))]

InitMain ==
  /\ pc = "init"
  /\ stream \in SeqsUpTo(0..MaxLen, MaxLines)
  /\ lineNum = 0
  /\ miniSize \in 0..MaxBatch
  /\ maxiSize \in 0..MaxBatch
  /\ maxiBatch = <<>>
  /\ enqueued = <<>>
  /\ cycleStart = <<>>
  /\ cycleOut = <<>>
  /\ tasks = <<>>

\* states of the task of a mini-batch: waiting in the queue of the pool,
\* being run by a worker, returned, ended by an exception that is held in
\* the task's completion handle (the std::future enqueue returns), and the
\* exception taken out of the handle by its holder
TaskStates == {"queued", "running", "done", "failed", "observed"}
Finished == {"done", "failed", "observed"}

\* god.GetThreadPool().enqueue(f): f joins the back of the queue
enqueue(q) == Append(q, "queued")

\* god.Init accepting any value of mini-batch and maxi-batch
GodInit_NoValidation ==
  /\ pc = "init"
  /\ pc' = "read"
  /\ UNCHANGED <<stream, lineNum, miniSize, maxiSize, maxiBatch, enqueued,
                 cycleStart, cycleOut, tasks>>
  /\ UNCHANGED matVars

\* god.Init(argc, argv) and the two god.Get<size_t>: a mini-batch or
\* maxi-batch option of zero is a configuration error, which ends the run
GodInit ==
  /\ pc = "init"
  /\ pc' = IF miniSize = 0 \/ maxiSize = 0 THEN "fatal" ELSE "read"
  /\ UNCHANGED <<stream, lineNum, miniSize, maxiSize, maxiBatch, enqueued,
                 cycleStart, cycleOut, tasks>>
  /\ UNCHANGED matVars

\* ReadLine with the SortByLength() call of the maxi-batch cycle left out
ReadLine_NoSort ==
  /\ pc = "read"
  /\ lineNum < Len(stream)
  /\ LET acc == Append(maxiBatch, Sentence(lineNum, stream[lineNum + 1]))
     IN  IF Len(acc) >= maxiSize
         THEN /\ maxiBatch' = acc
              /\ cycleStart' = acc
              /\ cycleOut' = <<>>
              /\ pc' = "slice"
         ELSE /\ maxiBatch' = acc
              /\ pc' = "read"
              /\ UNCHANGED <<cycleStart, cycleOut>>
  /\ lineNum' = lineNum + 1
  /\ UNCHANGED <<stream, miniSize, maxiSize, enqueued>>
  /\ UNCHANGED tasks
  /\ UNCHANGED matVars

\* ReadLine comparing size() with miniSize instead of maxiSize
ReadLine_MiniSize ==
  /\ pc = "read"
  /\ lineNum < Len(stream)
  /\ LET acc == Append(maxiBatch, Sentence(lineNum, stream[lineNum + 1]))
     IN  IF Len(acc) >= miniSize
         THEN /\ maxiBatch' = SortByLength(acc)
              /\ cycleStart' = acc
              /\ cycleOut' = <<>>
              /\ pc' = "slice"
         ELSE /\ maxiBatch' = acc
              /\ pc' = "read"
              /\ UNCHANGED <<cycleStart, cycleOut>>
  /\ lineNum' = lineNum + 1
  /\ UNCHANGED <<stream, miniSize, maxiSize, enqueued>>
  /\ UNCHANGED tasks
  /\ UNCHANGED matVars

\* ReadLine starting the maxi-batch cycle when size() > maxiSize
ReadLine_OffByOne ==
  /\ pc = "read"
  /\ lineNum < Len(stream)
  /\ LET acc == Append(maxiBatch, Sentence(lineNum, stream[lineNum + 1]))
     IN  IF Len(acc) > maxiSize
         THEN /\ maxiBatch' = SortByLength(acc)
              /\ cycleStart' = acc
              /\ cycleOut' = <<>>
              /\ pc' = "slice"
         ELSE /\ maxiBatch' = acc
              /\ pc' = "read"
              /\ UNCHANGED <<cycleStart, cycleOut>>
  /\ lineNum' = lineNum + 1
  /\ UNCHANGED <<stream, miniSize, maxiSize, enqueued>>
  /\ UNCHANGED tasks
  /\ UNCHANGED matVars

\* while (getline) { push_back(new Sentence(lineNum++)); if (size >= maxiSize)
\* { SortByLength(); ...
ReadLine ==
  /\ pc = "read"
  /\ lineNum < Len(stream)
  /\ LET acc == Append(maxiBatch, Sentence(lineNum, stream[lineNum + 1]))
     IN  IF Len(acc) >= maxiSize
         THEN /\ maxiBatch' = SortByLength(acc)
              /\ cycleStart' = acc
              /\ cycleOut' = <<>>
              /\ pc' = "slice"
         ELSE /\ maxiBatch' = acc
              /\ pc' = "read"
              /\ UNCHANGED <<cycleStart, cycleOut>>
  /\ lineNum' = lineNum + 1
  /\ UNCHANGED <<stream, miniSize, maxiSize, enqueued>>
  /\ UNCHANGED tasks
  /\ UNCHANGED matVars

\* SliceStep asking NextMiniBatch for maxiSize instead of miniSize sentences
SliceStep_MaxiSize ==
  /\ pc = "slice"
  /\ Len(maxiBatch) > 0
  /\ Len(enqueued) < MaxEnq
  /\ LET nmb == NextMiniBatch(maxiBatch, maxiSize)
     IN  /\ maxiBatch' = nmb.rest
         /\ enqueued' = Append(enqueued, nmb.batch)
         /\ cycleOut' = Append(cycleOut, nmb.batch)
         /\ tasks' = enqueue(tasks)
  /\ UNCHANGED <<pc, stream, lineNum, miniSize, maxiSize, cycleStart>>
  /\ UNCHANGED matVars

\* one iteration of the inner loop of the maxi-batch cycle:
\* miniBatch = maxiBatch->NextMiniBatch(miniSize); enqueue(task(miniBatch))
SliceStep ==
  /\ pc = "slice"
  /\ Len(maxiBatch) > 0
  /\ Len(enqueued) < MaxEnq
  /\ LET nmb == NextMiniBatch(maxiBatch, miniSize)
     IN  /\ maxiBatch' = nmb.rest
         /\ enqueued' = Append(enqueued, nmb.batch)
         /\ cycleOut' = Append(cycleOut, nmb.batch)
         /\ tasks' = enqueue(tasks)
  /\ UNCHANGED <<pc, stream, lineNum, miniSize, maxiSize, cycleStart>>
  /\ UNCHANGED matVars

\* the inner loop left after its first mini-batch, the rest staying in the
\* accumulator
EndCycle_Early ==
  /\ pc = "slice"
  /\ Len(cycleOut) >= 1
  /\ pc' = "read"
  /\ UNCHANGED <<stream, lineNum, miniSize, maxiSize, maxiBatch, enqueued,
                 cycleStart, cycleOut>>
  /\ UNCHANGED tasks
  /\ UNCHANGED matVars

\* the inner loop ends: maxiBatch.reset(new Sentences()), back to getline
EndCycle ==
  /\ pc = "slice"
  /\ Len(maxiBatch) = 0
  /\ maxiBatch' = <<>>
  /\ pc' = "read"
  /\ UNCHANGED <<stream, lineNum, miniSize, maxiSize, enqueued, cycleStart,
                 cycleOut>>
  /\ UNCHANGED tasks
  /\ UNCHANGED matVars

\* EndOfInput without the "last batch" block: main goes straight to Cleanup
EndOfInput_NoFlush ==
  /\ pc = "read"
  /\ lineNum = Len(stream)
  /\ pc' = "cleanup"
  /\ UNCHANGED <<maxiBatch, cycleStart, cycleOut>>
  /\ UNCHANGED <<stream, lineNum, miniSize, maxiSize, enqueued>>
  /\ UNCHANGED tasks
  /\ UNCHANGED matVars

\* getline fails at end of stream; "last batch": if (maxiBatch->size())
\* { SortByLength(); ...
EndOfInput ==
  /\ pc = "read"
  /\ lineNum = Len(stream)
  /\ IF Len(maxiBatch) > 0
     THEN /\ cycleStart' = maxiBatch
          /\ cycleOut' = <<>>
          /\ maxiBatch' = SortByLength(maxiBatch)
          /\ pc' = "flush"
     ELSE /\ pc' = "cleanup"
          /\ UNCHANGED <<maxiBatch, cycleStart, cycleOut>>
  /\ UNCHANGED <<stream, lineNum, miniSize, maxiSize, enqueued>>
  /\ UNCHANGED tasks
  /\ UNCHANGED matVars

\* one iteration of the loop of the last batch
FlushStep ==
  /\ pc = "flush"
  /\ Len(maxiBatch) > 0
  /\ Len(enqueued) < MaxEnq
  /\ LET nmb == NextMiniBatch(maxiBatch, miniSize)
     IN  /\ maxiBatch' = nmb.rest
         /\ enqueued' = Append(enqueued, nmb.batch)
         /\ cycleOut' = Append(cycleOut, nmb.batch)
         /\ tasks' = enqueue(tasks)
  /\ UNCHANGED <<pc, stream, lineNum, miniSize, maxiSize, cycleStart>>
  /\ UNCHANGED matVars

\* the loop of the last batch ends
EndFlush ==
  /\ pc = "flush"
  /\ Len(maxiBatch) = 0
  /\ pc' = "cleanup"
  /\ UNCHANGED <<stream, lineNum, miniSize, maxiSize, maxiBatch, enqueued,
                 cycleStart, cycleOut>>
  /\ UNCHANGED tasks
  /\ UNCHANGED matVars

\* the pool shuts down without waiting for the tasks it was given
PoolDrained_Abandon == TRUE

\* the ThreadPool has finished every task it was given
PoolDrained == \A i \in DOMAIN tasks : tasks[i] \in Finished

\* god.Cleanup(), which shuts the ThreadPool down: it returns when the
\* tasks enqueued so far have finished; return 0
Cleanup ==
  /\ pc = "cleanup"
  /\ PoolDrained
  /\ pc' = "done"
  /\ UNCHANGED <<stream, lineNum, miniSize, maxiSize, maxiBatch, enqueued,
                 cycleStart, cycleOut>>
  /\ UNCHANGED tasks
  /\ UNCHANGED matVars

(* --------------------- the workers of the ThreadPool ------------------- *)

\* the tasks a worker is running
Running == {i \in DOMAIN tasks : tasks[i] = "running"}

\* a worker that is free takes the task at the front of the queue
WorkerTake ==
  /\ Cardinality(Running) < NWorkers
  /\ \E i \in DOMAIN tasks :
       /\ tasks[i] = "queued"
       /\ \A j \in 1..(i - 1) : tasks[j] # "queued"
       /\ tasks' = [tasks EXCEPT ![i] = "running"]
  /\ UNCHANGED <<pc, stream, lineNum, miniSize, maxiSize, maxiBatch, enqueued,
                 cycleStart, cycleOut>>
  /\ UNCHANGED matVars

\* TranslationTaskAndOutput(god, miniBatch) returns
TaskReturn(i) ==
  /\ tasks[i] = "running"
  /\ tasks' = [tasks EXCEPT ![i] = "done"]
  /\ UNCHANGED <<pc, stream, lineNum, miniSize, maxiSize, maxiBatch, enqueued,
                 cycleStart, cycleOut>>
  /\ UNCHANGED matVars

\* TranslationTaskAndOutput(god, miniBatch) throws: the pool keeps the
\* exception in the completion handle of the task and the worker goes on
TaskThrow(i) ==
  /\ tasks[i] = "running"
  /\ Cardinality({j \in DOMAIN tasks : tasks[j] \in {"failed", "observed"}})
       < MaxFail
  /\ tasks' = [tasks EXCEPT ![i] = "failed"]
  /\ UNCHANGED <<pc, stream, lineNum, miniSize, maxiSize, maxiBatch, enqueued,
                 cycleStart, cycleOut>>
  /\ UNCHANGED matVars

(* ===================== properties of main (Spec) ======================= *)

\* the sentences main has created so far: the accumulator and every
\* enqueued mini-batch
Held == Flatten(enqueued) \o maxiBatch

\* number of places of Held that hold the sentence with arrival index i
Copies(i) == Cardinality({p \in 1..Len(Held) : Held[p].idx = i})

\* a sort-and-slice cycle is under way
InCycle == pc \in {"slice", "flush"} /\ maxiBatch # <<>>

\* position of sentence x in the sequence s
PosOf(s, x) == CHOOSE p \in 1..Len(s) : s[p] = x

\* s is the stable ascending length-sort of t
IsStableSortOf(s, t) ==
  /\ Len(s) = Len(t)
  /\ {s[p] : p \in 1..Len(s)} = {t[p] : p \in 1..Len(t)}
  /\ \A p, q \in 1..Len(s) : p < q => s[p].len <= s[q].len
  /\ \A p, q \in 1..Len(t) :
       (p < q /\ t[p].len = t[q].len) => PosOf(s, t[p]) < PosOf(s, t[q])

\* C1: with miniSize > 0 and maxiSize > 0, at every point of the run every
\* sentence read so far is held exactly once, in the accumulator or in one
\* enqueued mini-batch, with the 0-based arrival index it was created with;
\* when main returns all N sentences of the stream are in the enqueued
\* mini-batches and the accumulator is empty.
C1_EachSentenceOnce ==
  (miniSize > 0 /\ maxiSize > 0) =>
    /\ Len(Held) = lineNum
    /\ \A i \in 0..(lineNum - 1) :
         /\ Copies(i) = 1
         /\ \A p \in 1..Len(Held) :
              Held[p].idx = i => Held[p].len = stream[i + 1]
    /\ pc = "done" =>
         /\ lineNum = Len(stream)
         /\ maxiBatch = <<>>
         /\ Len(Flatten(enqueued)) = Len(stream)

\* main has returned after a full cycle and a flush of a remainder
C1_Witness ==
  /\ pc = "done"
  /\ miniSize = 2
  /\ maxiSize = 3
  /\ Len(stream) = 4
  /\ Len(enqueued) = 3

\* C2: in every sort-and-slice cycle (maxi-batch cycle or end-of-input
\* flush) the mini-batches enqueued so far, followed by what is still to be
\* sliced, are the stable ascending length-sort of the accumulator as it
\* stood when the cycle started; once the cycle is over the concatenation of
\* its mini-batches is that sort.
C2_CycleIsStableSort ==
  cycleStart # <<>> =>
    IF pc \in {"slice", "flush"}
    THEN IsStableSortOf(Flatten(cycleOut) \o maxiBatch, cycleStart)
    ELSE IsStableSortOf(Flatten(cycleOut), cycleStart)

\* the scenario of the spec: lengths that arrive out of order, with a tie,
\* have been sorted and sliced by a maxi-batch cycle
C2_Witness ==
  /\ pc = "read"
  /\ miniSize = 2
  /\ maxiSize = 3
  /\ Len(cycleStart) = 3
  /\ cycleStart[1].len = 1
  /\ cycleStart[2].len = 0
  /\ cycleStart[3].len = 0
  /\ Len(cycleOut) = 2
  /\ cycleOut[1] = <<cycleStart[2], cycleStart[3]>>

\* C3: with miniSize > 0, in a cycle over k >= 1 sentences no mini-batch is
\* empty, every mini-batch but the last has exactly miniSize sentences, and
\* the last one has k - miniSize*(n-1) sentences, between 1 and miniSize,
\* where n = ceil(k / miniSize) is the number of mini-batches of the cycle.
C3_MiniBatchSizes ==
  miniSize > 0 =>
    LET k == Len(cycleStart)
        n == Len(cycleOut)
    IN  /\ \A i \in 1..n : Len(cycleOut[i]) >= 1
        /\ \A i \in 1..n : (i < n \/ InCycle) => Len(cycleOut[i]) = miniSize
        /\ (~InCycle /\ k >= 1) =>
             /\ n = (k + miniSize - 1) \div miniSize
             /\ Len(cycleOut[n]) = k - miniSize * (n - 1)
             /\ Len(cycleOut[n]) \in 1..miniSize

\* a maxi-batch cycle over 3 sentences has ended with a remainder
\* mini-batch of 1 sentence behind a full one of 2
C3_Witness ==
  /\ pc = "read"
  /\ miniSize = 2
  /\ Len(cycleStart) = 3
  /\ Len(cycleOut) = 2
  /\ Len(cycleOut[1]) = 2
  /\ Len(cycleOut[2]) = 1

\* sizes of the mini-batches of bs, in order
Sizes(bs) == [i \in 1..Len(bs) |-> Len(bs[i])]

\* maxiSize = 5, miniSize = 2 and a stream of exactly 5 sentences
FiveOfFive == maxiSize = 5 /\ miniSize = 2 /\ Len(stream) = 5

\* C11 as claimed: with maxiSize = 5, miniSize = 2 and exactly 5 sentences
\* no maxi-batch cycle is started while the sentences are submitted and
\* every mini-batch is enqueued by the end-of-input flush, which leaves the
\* sizes 2, 2, 1; in general an accumulator of maxiSize sentences at end of
\* stream is emitted whole by the flush.
C11_Original ==
  [][/\ FiveOfFive =>
          /\ pc' # "slice"
          /\ enqueued' # enqueued => pc = "flush"
          /\ pc' = "cleanup" => Sizes(enqueued') = <<2, 2, 1>>
     /\ (pc = "flush" /\ pc' = "cleanup" /\ Len(cycleStart) = maxiSize) =>
          Flatten(cycleOut) = SortByLength(cycleStart)]_vars

\* C11 as amended: with maxiSize = 5, miniSize = 2 and exactly 5 sentences
\* the fifth submission starts a maxi-batch cycle, which enqueues the three
\* mini-batches (sizes 2, 2, 1) that cover all 5 sentences before end of
\* input is seen; the end-of-input flush then finds the accumulator empty
\* and enqueues nothing. In general the accumulator holds fewer than
\* maxiSize sentences whenever the next line is awaited, so the flush never
\* meets maxiSize buffered sentences; what it meets it enqueues whole.
C11_Amended ==
  /\ FiveOfFive =>
       /\ pc # "flush"
       /\ lineNum < 5 => enqueued = <<>>
       /\ (lineNum = 5 /\ pc = "slice") =>
            /\ Len(cycleStart) = 5
            /\ enqueued = cycleOut
       /\ (lineNum = 5 /\ pc \in {"read", "cleanup", "done"}) =>
            /\ Sizes(enqueued) = <<2, 2, 1>>
            /\ enqueued = cycleOut
            /\ maxiBatch = <<>>
            /\ {s.idx : s \in {Flatten(enqueued)[p] : p \in 1..5}} = 0..4
  /\ pc = "read" => Len(maxiBatch) < maxiSize
  /\ pc = "flush" => Len(cycleStart) < maxiSize
  /\ pc \in {"cleanup", "done"} =>
       /\ maxiBatch = <<>>
       /\ Len(Flatten(enqueued)) = Len(stream)

\* the run of 5 sentences with maxiSize = 5 and miniSize = 2 has ended
C11_Witness ==
  /\ FiveOfFive
  /\ pc = "done"
  /\ Sizes(enqueued) = <<2, 2, 1>>
  /\ Sizes(cycleOut) = <<2, 2, 1>>

\* the block of maxiSize consecutive inputs that arrival index i falls in
Block(i) == i \div maxiSize

\* C12: maxi-batch cycles do not overlap. When a sentence is read and
\* appended, every sentence of the blocks before its own has been enqueued
\* and the accumulator holds exactly the earlier sentences of its own block
\* (nothing when it is the first of its block, i.e. the first appended after
\* a cycle); every enqueued mini-batch holds sentences of one block only.
C12_CyclesDoNotOverlap ==
  [][/\ lineNum' = lineNum + 1 =>
          /\ Len(maxiBatch) = lineNum % maxiSize
          /\ \A p \in 1..Len(maxiBatch) :
               Block(maxiBatch[p].idx) = Block(lineNum)
          /\ Len(Flatten(enqueued)) = lineNum - Len(maxiBatch)
          /\ Len(tasks) = Len(enqueued)
          /\ \A p \in 1..Len(Flatten(enqueued)) :
               Block(Flatten(enqueued)[p].idx) < Block(lineNum)
     /\ \A i \in 1..Len(enqueued') :
          \A p, q \in 1..Len(enqueued'[i]) :
            Block(enqueued'[i][p].idx) = Block(enqueued'[i][q].idx)]_vars

\* two cycles of two sentences have run and the fifth sentence has been
\* appended to the accumulator that the second cycle left empty
C12_Witness ==
  /\ maxiSize = 2
  /\ miniSize = 1
  /\ pc = "read"
  /\ lineNum = 5
  /\ Len(maxiBatch) = 1
  /\ maxiBatch[1].idx = 4
  /\ Len(enqueued) = 4

\* C13: with a mini-batch or maxi-batch size of zero the run goes from
\* start-up to the fatal configuration-error state and nowhere else: no
\* line is read, no sentence buffered, no mini-batch enqueued; the slicing
\* loops are only ever entered with miniSize > 0.
C13_ZeroSizeIsFatal ==
  /\ (miniSize = 0 \/ maxiSize = 0) =>
       /\ pc \in {"init", "fatal"}
       /\ lineNum = 0
       /\ maxiBatch = <<>>
       /\ enqueued = <<>>
       /\ tasks = <<>>
  /\ pc \in {"slice", "flush"} => (miniSize > 0 /\ maxiSize > 0)

\* a run with miniSize = 0 and lines to read has ended in the fatal state
C13_Witness ==
  /\ pc = "fatal"
  /\ miniSize = 0
  /\ maxiSize = 3
  /\ Len(stream) = 2

\* C19: before end of input, a submission that leaves the accumulator below
\* maxiSize only appends the sentence (no sort, no enqueue, no cycle); the
\* mini-batches enqueued inside the read loop belong to a cycle over exactly
\* maxiSize sentences; the accumulator never holds more than maxiSize
\* sentences.
C19_SubmitOnlyBuffers ==
  [][/\ (lineNum' = lineNum + 1 /\ Len(maxiBatch) + 1 < maxiSize) =>
          /\ maxiBatch' =
               Append(maxiBatch, Sentence(lineNum, stream[lineNum + 1]))
          /\ enqueued' = enqueued
          /\ tasks' = tasks
          /\ pc' = "read"
          /\ UNCHANGED <<cycleStart, cycleOut>>
     /\ (enqueued' # enqueued /\ lineNum < Len(stream)) =>
          /\ pc = "slice"
          /\ Len(cycleStart) = maxiSize
     /\ pc' = "slice" => Len(cycleStart') = maxiSize
     /\ Len(maxiBatch') <= maxiSize]_vars

\* two sentences, the longer first, sit unsorted in an accumulator that a
\* third would fill, and nothing has been enqueued
C19_Witness ==
  /\ pc = "read"
  /\ maxiSize = 3
  /\ lineNum = 2
  /\ Len(maxiBatch) = 2
  /\ maxiBatch[1].len = 1
  /\ maxiBatch[2].len = 0
  /\ enqueued = <<>>

\* C14: exit with code 0 happens only after all input has been consumed and
\* every enqueued task has finished, and with miniSize > 0 and maxiSize > 0
\* and fair scheduling of main and the workers every run reaches it.
C14_ExitsAfterDrain ==
  /\ [](pc = "done" =>
          /\ lineNum = Len(stream)
          /\ maxiBatch = <<>>
          /\ Len(Flatten(enqueued)) = Len(stream)
          /\ Len(tasks) = Len(enqueued)
          /\ \A i \in DOMAIN tasks : tasks[i] \in Finished)
  /\ (miniSize > 0 /\ maxiSize > 0) ~> (pc = "done")

\* main has returned 0 after three tasks, one of which threw
C14_Witness ==
  /\ pc = "done"
  /\ Len(stream) = 3
  /\ Len(tasks) = 3
  /\ tasks[1] = "done"
  /\ tasks[2] = "failed"
  /\ tasks[3] = "done"

\* C15: a failure of a task is not silently swallowed: when main exits,
\* every failure held in a completion handle has been taken out of it by
\* the caller, and every other task has run to completion.
C15_FailureObserved ==
  pc = "done" =>
    \A i \in DOMAIN tasks : tasks[i] \in {"done", "observed"}


(* ======================= matrix.h : TMatrix<T> ========================= *)

\* the places that can hold a TMatrix object in this run
Bufs == DOMAIN mat
\* values of the size_t arguments rows, cols, beam, batches
Dims == 0..MaxDim
PairDims == 0..MaxPairDim
\* device addresses of allocations; the null pointer is 0
Handles == 1..MaxAllocs
NullPtr == 0

\* storage without an object in it (not yet constructed, or destroyed)
NoObject ==
  [live |-> FALSE, rows_ |-> 0, cols_ |-> 0, beam_ |-> 0, batches_ |-> 0,
   arrSize_ |-> 0, data_ |-> NullPtr]

\* TMatrix(): the default constructor
TMatrix ==
  [live |-> TRUE, rows_ |-> 0, cols_ |-> 0, beam_ |-> 0, batches_ |-> 0,
   arrSize_ |-> 0, data_ |-> NullPtr]

\* size(): cols_ * rows_ * beam_ * batches_
size(m) == m.cols_ * m.rows_ * m.beam_ * m.batches_

\* device calls, as they are logged in devOps
CudaMalloc(p, n) == [call |-> "cudaMalloc", ptr |-> p, src |-> NullPtr, n |-> n]
CudaMemset(p, n) == [call |-> "cudaMemset", ptr |-> p, src |-> NullPtr, n |-> n]
CudaMemcpyAsync(dst, from, n) ==
  [call |-> "cudaMemcpyAsync", ptr |-> dst, src |-> from, n |-> n]
CudaFree(p) == [call |-> "cudaFree", ptr |-> p, src |-> NullPtr, n |-> 0]

\* the pointer a successful cudaMalloc of n elements stores: the lowest free
\* device address (the address of a freed allocation is handed out again),
\* or the null pointer for a request of 0 bytes; -1 stands for a request
\* the device cannot serve (HANDLE_ERROR then ends the process)
MallocPtr(hp, n) ==
  IF n = 0 THEN NullPtr
  ELSE IF \E h \in Handles : hp[h] = "free"
       THEN CHOOSE h \in Handles :
              hp[h] = "free" /\ \A g \in Handles : hp[g] = "free" => h <= g
       ELSE -1

\* effect of one device call on the allocations; cudaFree(nullptr) does
\* nothing, a cudaFree of an address that holds no allocation is recorded
ApplyCall(hp, c) ==
  IF c.call = "cudaMalloc" /\ c.ptr \in Handles
  THEN [hp EXCEPT ![c.ptr] = "live"]
  ELSE IF c.call = "cudaFree" /\ c.ptr \in Handles
       THEN [hp EXCEPT ![c.ptr] = IF hp[c.ptr] = "live" THEN "free"
                                  ELSE "doublefree"]
       ELSE hp

RECURSIVE ApplyCalls(_, _)
ApplyCalls(hp, ops) ==
  IF ops = <<>> THEN hp ELSE ApplyCalls(ApplyCall(hp, Head(ops)), Tail(ops))

\* every method below yields the object after the call and the device calls
\* it issued, in order

\* TMatrix(rows, cols, beam, batches, zero): beam_ and batches_ are set to 1
\* and arrSize_ to size() of the members initialised before it
TMatrixSized(hp, rows, cols, beam, batches, zero) ==
  LET n == cols * rows * 1 * 1
      p == MallocPtr(hp, n)
  IN  [obj |-> [live |-> TRUE, rows_ |-> rows, cols_ |-> cols, beam_ |-> 1,
                batches_ |-> 1, arrSize_ |-> n, data_ |-> p],
       ops |-> <<CudaMalloc(p, n)>>
               \o (IF zero THEN <<CudaMemset(p, n)>> ELSE <<>>)]

\* TMatrixCopy sizing the new region by the logical element count size()
TMatrixCopy_LogicalSize(hp, m) ==
  LET p == MallocPtr(hp, size(m))
  IN  [obj |-> [live |-> TRUE, rows_ |-> m.rows_, cols_ |-> m.cols_,
                beam_ |-> m.beam_, batches_ |-> m.batches_,
                arrSize_ |-> size(m), data_ |-> p],
       ops |-> <<CudaMalloc(p, size(m)),
                 CudaMemcpyAsync(p, m.data_, size(m))>>]

\* TMatrix(const TMatrix& m)
TMatrixCopy(hp, m) ==
  LET p == MallocPtr(hp, m.arrSize_)
  IN  [obj |-> [live |-> TRUE, rows_ |-> m.rows_, cols_ |-> m.cols_,
                beam_ |-> m.beam_, batches_ |-> m.batches_,
                arrSize_ |-> m.arrSize_, data_ |-> p],
       ops |-> <<CudaMalloc(p, m.arrSize_),
                 CudaMemcpyAsync(p, m.data_, m.arrSize_)>>]

\* swap(other): the two objects after the exchange of all six members
swap(this, other) == [this |-> other, other |-> this]

\* TMatrixMove taking over the members of m without resetting m
TMatrixMove_NoReset(m) == [this |-> m, other |-> m]

\* TMatrix(TMatrix&& m): TMatrix() followed by swap(m)
TMatrixMove(m) == swap(TMatrix, m)

\* Clear without data_ = nullptr
Clear_KeepsPointer(m) ==
  [obj |-> [m EXCEPT !.rows_ = 0, !.cols_ = 0, !.beam_ = 0, !.batches_ = 0,
                     !.arrSize_ = 0],
   ops |-> <<CudaFree(m.data_)>>]

\* Clear without arrSize_ = 0
Clear_KeepsCapacity(m) ==
  [obj |-> [m EXCEPT !.data_ = NullPtr, !.rows_ = 0, !.cols_ = 0,
                     !.beam_ = 0, !.batches_ = 0],
   ops |-> <<CudaFree(m.data_)>>]

\* Clear()
Clear(m) ==
  [obj |-> [m EXCEPT !.data_ = NullPtr, !.rows_ = 0, !.cols_ = 0,
                     !.beam_ = 0, !.batches_ = 0, !.arrSize_ = 0],
   ops |-> <<CudaFree(m.data_)>>]

\* Resize growing the allocation without arrSize_ = newSize
Resize_NoCapUpdate(hp, m, rows, cols, beam, batches) ==
  LET newSize == cols * rows * beam * batches
      newData == MallocPtr(hp, newSize)
      shaped(o) == [o EXCEPT !.rows_ = rows, !.cols_ = cols, !.beam_ = beam,
                             !.batches_ = batches]
  IN  IF m.data_ # NullPtr
      THEN IF newSize > m.arrSize_
           THEN [obj |-> shaped([m EXCEPT !.data_ = newData]),
                 ops |-> <<CudaMalloc(newData, newSize),
                           CudaMemcpyAsync(newData, m.data_, size(m)),
                           CudaFree(m.data_)>>]
           ELSE IF rows = 0 \/ cols = 0
                THEN [obj |-> shaped(Clear(m).obj), ops |-> Clear(m).ops]
                ELSE [obj |-> shaped(m), ops |-> <<>>]
      ELSE [obj |-> shaped([m EXCEPT !.data_ = newData,
                                     !.arrSize_ = newSize]),
            ops |-> <<CudaMalloc(newData, newSize)>>]

\* Resize without the Clear() of the zero rows / zero cols branch
Resize_NoClear(hp, m, rows, cols, beam, batches) ==
  LET newSize == cols * rows * beam * batches
      newData == MallocPtr(hp, newSize)
      shaped(o) == [o EXCEPT !.rows_ = rows, !.cols_ = cols, !.beam_ = beam,
                             !.batches_ = batches]
  IN  IF m.data_ # NullPtr
      THEN IF newSize > m.arrSize_
           THEN [obj |-> shaped([m EXCEPT !.data_ = newData,
                                          !.arrSize_ = newSize]),
                 ops |-> <<CudaMalloc(newData, newSize),
                           CudaMemcpyAsync(newData, m.data_, size(m)),
                           CudaFree(m.data_)>>]
           ELSE [obj |-> shaped(m), ops |-> <<>>]
      ELSE [obj |-> shaped([m EXCEPT !.data_ = newData,
                                     !.arrSize_ = newSize]),
            ops |-> <<CudaMalloc(newData, newSize)>>]

\* Resize reallocating already when newSize >= arrSize_
Resize_ReallocOnEqual(hp, m, rows, cols, beam, batches) ==
  LET newSize == cols * rows * beam * batches
      newData == MallocPtr(hp, newSize)
      shaped(o) == [o EXCEPT !.rows_ = rows, !.cols_ = cols, !.beam_ = beam,
                             !.batches_ = batches]
  IN  IF m.data_ # NullPtr
      THEN IF newSize >= m.arrSize_
           THEN [obj |-> shaped([m EXCEPT !.data_ = newData,
                                          !.arrSize_ = newSize]),
                 ops |-> <<CudaMalloc(newData, newSize),
                           CudaMemcpyAsync(newData, m.data_, size(m)),
                           CudaFree(m.data_)>>]
           ELSE IF rows = 0 \/ cols = 0
                THEN [obj |-> shaped(Clear(m).obj), ops |-> Clear(m).ops]
                ELSE [obj |-> shaped(m), ops |-> <<>>]
      ELSE [obj |-> shaped([m EXCEPT !.data_ = newData,
                                     !.arrSize_ = newSize]),
            ops |-> <<CudaMalloc(newData, newSize)>>]

\* Resize copying arrSize_ elements (the old capacity) instead of size()
Resize_CopyCapacity(hp, m, rows, cols, beam, batches) ==
  LET newSize == cols * rows * beam * batches
      newData == MallocPtr(hp, newSize)
      shaped(o) == [o EXCEPT !.rows_ = rows, !.cols_ = cols, !.beam_ = beam,
                             !.batches_ = batches]
  IN  IF m.data_ # NullPtr
      THEN IF newSize > m.arrSize_
           THEN [obj |-> shaped([m EXCEPT !.data_ = newData,
                                          !.arrSize_ = newSize]),
                 ops |-> <<CudaMalloc(newData, newSize),
                           CudaMemcpyAsync(newData, m.data_, m.arrSize_),
                           CudaFree(m.data_)>>]
           ELSE IF rows = 0 \/ cols = 0
                THEN [obj |-> shaped(Clear(m).obj), ops |-> Clear(m).ops]
                ELSE [obj |-> shaped(m), ops |-> <<>>]
      ELSE [obj |-> shaped([m EXCEPT !.data_ = newData,
                                     !.arrSize_ = newSize]),
            ops |-> <<CudaMalloc(newData, newSize)>>]

\* Resize(rows, cols, beam, batches)
Resize(hp, m, rows, cols, beam, batches) ==
  LET newSize == cols * rows * beam * batches
      newData == MallocPtr(hp, newSize)
      shaped(o) == [o EXCEPT !.rows_ = rows, !.cols_ = cols, !.beam_ = beam,
                             !.batches_ = batches]
  IN  IF m.data_ # NullPtr
      THEN IF newSize > m.arrSize_
           THEN [obj |-> shaped([m EXCEPT !.data_ = newData,
                                          !.arrSize_ = newSize]),
                 ops |-> <<CudaMalloc(newData, newSize),
                           CudaMemcpyAsync(newData, m.data_, size(m)),
                           CudaFree(m.data_)>>]
           ELSE IF rows = 0 \/ cols = 0
                THEN [obj |-> shaped(Clear(m).obj), ops |-> Clear(m).ops]
                ELSE [obj |-> shaped(m), ops |-> <<>>]
      ELSE [obj |-> shaped([m EXCEPT !.data_ = newData,
                                     !.arrSize_ = newSize]),
            ops |-> <<CudaMalloc(newData, newSize)>>]

\* Reshape without the capacity check
Reshape_NoCheck(m, rows, cols, beam, batches) ==
  [ok |-> TRUE,
   obj |-> [m EXCEPT !.rows_ = rows, !.cols_ = cols,
                     !.beam_ = beam, !.batches_ = batches]]

\* Reshape(rows, cols, beam, batches); ok is FALSE when
\* amunmt_UTIL_THROW_IF2 throws
Reshape(m, rows, cols, beam, batches) ==
  LET newSize == cols * rows * beam * batches
  IN  IF newSize > m.arrSize_
      THEN [ok |-> FALSE, obj |-> m]
      ELSE [ok |-> TRUE,
            obj |-> [m EXCEPT !.rows_ = rows, !.cols_ = cols,
                              !.beam_ = beam, !.batches_ = batches]]

\* Reshape2D without beam_ = 1
Reshape2D_KeepsBeam(m) ==
  [m EXCEPT !.rows_ = m.rows_ * m.beam_ * m.batches_, !.batches_ = 1]

\* Reshape2D()
Reshape2D(m) ==
  [m EXCEPT !.rows_ = m.rows_ * m.beam_ * m.batches_, !.beam_ = 1,
            !.batches_ = 1]

\* ~TMatrix(): Clear(), then the object is gone
Destroy(m) == [obj |-> NoObject, ops |-> Clear(m).ops]

\* no call of ops is a cudaMalloc the device cannot serve
Served(ops) == \A i \in 1..Len(ops) : ops[i].ptr # -1

\* n places for objects, none constructed yet, and nothing allocated
InitMatrix(n) ==
  /\ mat = [b \in 1..n |-> NoObject]
  /\ heap = [h \in Handles |-> "free"]
  /\ devOps = <<>>
  /\ last = [op |-> "none", b |-> 0, ok |-> TRUE]
  /\ conv = NoConversion

\* an operation on object b that yields r = [obj, ops] and cannot throw
Done(name, b, r) ==
  /\ Served(r.ops)
  /\ mat' = [mat EXCEPT ![b] = r.obj]
  /\ heap' = ApplyCalls(heap, r.ops)
  /\ devOps' = r.ops
  /\ last' = [op |-> name, b |-> b, ok |-> TRUE]
  /\ UNCHANGED conv
  /\ UNCHANGED mainVars

DoConstruct(b) ==
  /\ ~mat[b].live
  /\ Done("TMatrix", b, [obj |-> TMatrix, ops |-> <<>>])

DoConstructSized(b, rows, cols, beam, batches, zero) ==
  /\ ~mat[b].live
  /\ Done("TMatrixSized", b, TMatrixSized(heap, rows, cols, beam, batches, zero))

DoCopyConstruct(b, m) ==
  /\ ~mat[b].live
  /\ mat[m].live
  /\ Done("TMatrixCopy", b, TMatrixCopy(heap, mat[m]))

DoMoveConstruct(b, m) ==
  /\ ~mat[b].live
  /\ mat[m].live
  /\ mat' = [mat EXCEPT ![b] = TMatrixMove(mat[m]).this,
                        ![m] = TMatrixMove(mat[m]).other]
  /\ heap' = heap
  /\ devOps' = <<>>
  /\ last' = [op |-> "TMatrixMove", b |-> b, ok |-> TRUE]
  /\ UNCHANGED conv
  /\ UNCHANGED mainVars

DoDestroy(b) ==
  /\ mat[b].live
  /\ Done("~TMatrix", b, Destroy(mat[b]))

DoResize(b, rows, cols, beam, batches) ==
  /\ mat[b].live
  /\ Done("Resize", b, Resize(heap, mat[b], rows, cols, beam, batches))

DoReshape(b, rows, cols, beam, batches) ==
  /\ mat[b].live
  /\ LET r == Reshape(mat[b], rows, cols, beam, batches)
     IN  /\ mat' = [mat EXCEPT ![b] = r.obj]
         /\ last' = [op |-> "Reshape", b |-> b, ok |-> r.ok]
  /\ heap' = heap
  /\ devOps' = <<>>
  /\ UNCHANGED conv
  /\ UNCHANGED mainVars

DoReshape2D(b) ==
  /\ mat[b].live
  /\ Done("Reshape2D", b, [obj |-> Reshape2D(mat[b]), ops |-> <<>>])

DoClear(b) ==
  /\ mat[b].live
  /\ Done("Clear", b, Clear(mat[b]))

DoSwap(b, o) ==
  /\ mat[b].live
  /\ mat[o].live
  /\ b # o
  /\ mat' = [mat EXCEPT ![b] = swap(mat[b], mat[o]).this,
                        ![o] = swap(mat[b], mat[o]).other]
  /\ heap' = heap
  /\ devOps' = <<>>
  /\ last' = [op |-> "swap", b |-> b, ok |-> TRUE]
  /\ UNCHANGED conv
  /\ UNCHANGED mainVars

\* if (m) / bool(m) on the object whose shape is conv.obj
DoOperatorBool ==
  /\ ~conv.called
  /\ conv' = [conv EXCEPT !.called = TRUE, !.result = operatorBool(conv.obj)]
  /\ UNCHANGED <<mat, heap, devOps, last>>
  /\ UNCHANGED mainVars

(* ================== properties of TMatrix objects ====================== *)

\* rows * cols * beam * batch of an object: its logical element count
Elems(m) == m.rows_ * m.cols_ * m.beam_ * m.batches_

\* the logical shape of an object
Shape(m) == <<m.rows_, m.cols_, m.beam_, m.batches_>>
AllZero(m) == Shape(m) = <<0, 0, 0, 0>>

\* The properties of one call are action properties over the steps of that
\* operation: the object b of a step is the one that last' names.

\* the calls of ops allocate, copy and free nothing: at most a cudaMalloc of
\* 0 bytes or a cudaFree of the null pointer
NoDeviceWork(ops) ==
  \A i \in 1..Len(ops) :
    \/ ops[i].call = "cudaMalloc" /\ ops[i].n = 0
    \/ ops[i].call = "cudaFree" /\ ops[i].ptr = NullPtr

\* C4: every constructed buffer (default, sized, copy or move constructed),
\* after any sequence of Resize, Reshape, Reshape2D, Clear and swap, has
\* capacity arrSize_ >= rows * cols * beam * batch.
C4_CapacityCoversShape ==
  \A b \in Bufs : mat[b].live => mat[b].arrSize_ >= Elems(mat[b])

\* a swap has just handed an object a capacity above its element count
C4_Witness ==
  /\ last.op = "swap"
  /\ \E b \in Bufs :
       /\ mat[b].live
       /\ mat[b].arrSize_ = 2
       /\ Elems(mat[b]) = 1

\* C5 as claimed: after a Resize, Reshape or Clear the capacity is 0 if and
\* only if the shape is all-zero, and a Resize with rows = 0 or cols = 0
\* leaves the buffer as Clear does (default-constructed state).
C5_Original ==
  \A b \in Bufs :
    (mat[b].live /\ last.b = b /\ last.ok
       /\ last.op \in {"Resize", "Reshape", "Clear"}) =>
      /\ mat[b].arrSize_ = 0 <=> AllZero(mat[b])
      /\ (last.op = "Resize" /\ (mat[b].rows_ = 0 \/ mat[b].cols_ = 0)) =>
           mat[b] = TMatrix

\* C5 as amended: capacity 0 implies that the element count is 0 (not that
\* the shape is all-zero); Clear leaves capacity 0, a null handle and the
\* all-zero shape; a Resize with rows = 0 or cols = 0 leaves capacity 0, a
\* null handle and no allocation behind, but the shape of its arguments.
C5_Amended ==
  \A b \in Bufs :
    mat[b].live =>
      /\ mat[b].arrSize_ = 0 => Elems(mat[b]) = 0
      /\ (last.b = b /\ last.op = "Clear") => mat[b] = TMatrix
      /\ (last.b = b /\ last.op = "Resize"
            /\ (mat[b].rows_ = 0 \/ mat[b].cols_ = 0)) =>
           /\ mat[b].arrSize_ = 0
           /\ mat[b].data_ = NullPtr
           /\ \A h \in Handles : heap[h] = "free"

\* Resize(0, 2) has freed the allocation of the buffer and left a shape
\* that is not all-zero
C5_Witness ==
  /\ last.op = "Resize"
  /\ devOps = <<CudaFree(1)>>
  /\ Shape(mat[1]) = <<0, 2, 1, 1>>
  /\ mat[1].arrSize_ = 0

\* C6: a Reshape whose element count exceeds the capacity throws and leaves
\* shape, capacity, handle and device memory as they were; otherwise it
\* succeeds, sets the shape to its arguments, keeps capacity and handle, and
\* issues no device call.
C6_ReshapeChecked ==
  [][\A b \in {c \in Bufs : last'.op = "Reshape" /\ last'.b = c},
        rows, cols, beam, batches \in Dims :
       DoReshape(b, rows, cols, beam, batches) =>
         /\ devOps' = <<>>
         /\ heap' = heap
         /\ IF rows * cols * beam * batches > mat[b].arrSize_
            THEN /\ ~last'.ok
                 /\ mat' = mat
            ELSE /\ last'.ok
                 /\ Shape(mat'[b]) = <<rows, cols, beam, batches>>
                 /\ mat'[b].arrSize_ = mat[b].arrSize_
                 /\ mat'[b].data_ = mat[b].data_
                 /\ mat'[b].live]_vars

\* a Reshape of an allocated buffer has thrown
C6_Witness ==
  /\ last.op = "Reshape"
  /\ ~last.ok
  /\ mat[1].arrSize_ = 4
  /\ Elems(mat[1]) = 2

\* C7 as claimed: a Resize whose element count is at most the capacity
\* leaves capacity and handle unchanged and allocates, copies and frees
\* nothing.
C7_Original ==
  [][\A b \in {c \in Bufs : last'.op = "Resize" /\ last'.b = c},
        rows, cols, beam, batches \in Dims :
       (DoResize(b, rows, cols, beam, batches)
          /\ rows * cols * beam * batches <= mat[b].arrSize_) =>
         /\ mat'[b].arrSize_ = mat[b].arrSize_
         /\ mat'[b].data_ = mat[b].data_
         /\ NoDeviceWork(devOps')]_vars

\* C7 as amended: a Resize with rows # 0 and cols # 0 whose element count is
\* at most the capacity leaves capacity and handle unchanged and allocates,
\* copies and frees nothing; on a buffer that holds an allocation it issues
\* no device call at all. With rows = 0 or cols = 0 on a buffer that holds
\* an allocation it frees the allocation and the capacity becomes 0.
C7_Amended ==
  [][\A b \in {c \in Bufs : last'.op = "Resize" /\ last'.b = c},
        rows, cols, beam, batches \in Dims :
       (DoResize(b, rows, cols, beam, batches)
          /\ rows * cols * beam * batches <= mat[b].arrSize_) =>
         IF rows # 0 /\ cols # 0
         THEN /\ mat'[b].arrSize_ = mat[b].arrSize_
              /\ mat'[b].data_ = mat[b].data_
              /\ NoDeviceWork(devOps')
              /\ mat[b].data_ # NullPtr => devOps' = <<>>
         ELSE mat[b].data_ # NullPtr =>
                /\ devOps' = <<CudaFree(mat[b].data_)>>
                /\ mat'[b].arrSize_ = 0
                /\ mat'[b].data_ = NullPtr]_vars

\* a Resize to a smaller, non-empty shape has kept the allocation
C7_Witness ==
  /\ last.op = "Resize"
  /\ devOps = <<>>
  /\ mat[1].arrSize_ = 4
  /\ Shape(mat[1]) = <<1, 2, 1, 1>>
  /\ mat[1].data_ # NullPtr

\* C8 as claimed: the copy constructor allocates a region of exactly the
\* source's element count rows*cols*beam*batch, copies that many elements,
\* and gives the copy the source's shape.
C8_Original ==
  [][\A b \in {c \in Bufs : last'.op = "TMatrixCopy" /\ last'.b = c},
        m \in Bufs :
       DoCopyConstruct(b, m) =>
         /\ mat'[b].arrSize_ = Elems(mat[m])
         /\ Shape(mat'[b]) = Shape(mat[m])
         /\ devOps' = <<CudaMalloc(mat'[b].data_, Elems(mat[m])),
                        CudaMemcpyAsync(mat'[b].data_, mat[m].data_,
                                        Elems(mat[m]))>>]_vars

\* C8 as amended: the copy constructor allocates a region of exactly the
\* source's capacity arrSize_, copies that many elements from the source's
\* region, and gives the copy the source's shape and capacity; the source is
\* not changed and the copy's region is not the source's.
C8_Amended ==
  [][\A b \in {c \in Bufs : last'.op = "TMatrixCopy" /\ last'.b = c},
        m \in Bufs :
       DoCopyConstruct(b, m) =>
         /\ mat'[b].arrSize_ = mat[m].arrSize_
         /\ Shape(mat'[b]) = Shape(mat[m])
         /\ mat'[b].live
         /\ mat'[m] = mat[m]
         /\ mat[m].arrSize_ > 0 =>
              /\ mat'[b].data_ \in Handles
              /\ mat'[b].data_ # mat[m].data_
              /\ heap[mat'[b].data_] = "free"
         /\ devOps' = <<CudaMalloc(mat'[b].data_, mat[m].arrSize_),
                        CudaMemcpyAsync(mat'[b].data_, mat[m].data_,
                                        mat[m].arrSize_)>>]_vars

\* a buffer whose capacity exceeds its element count has been copied
C8_Witness ==
  /\ last.op = "TMatrixCopy"
  /\ \E b, m \in Bufs :
       /\ last.b = b
       /\ m # b
       /\ mat[m].live
       /\ mat[b].arrSize_ = 2
       /\ mat[m].arrSize_ = 2
       /\ Elems(mat[b]) = 1
       /\ devOps = <<CudaMalloc(mat[b].data_, 2),
                     CudaMemcpyAsync(mat[b].data_, mat[m].data_, 2)>>

\* C9: no two live buffers hold the same non-null handle; the handle of a
\* live buffer is a live allocation; no allocation is freed twice; every
\* live allocation is held by a live buffer, so that once every buffer is
\* destroyed every allocation has been freed.
C9_Ownership ==
  /\ \A b, c \in Bufs :
       (b # c /\ mat[b].live /\ mat[c].live /\ mat[b].data_ # NullPtr) =>
         mat[b].data_ # mat[c].data_
  /\ \A b \in Bufs :
       (mat[b].live /\ mat[b].data_ # NullPtr) => heap[mat[b].data_] = "live"
  /\ \A h \in Handles : heap[h] # "doublefree"
  /\ \A h \in Handles :
       heap[h] = "live" => \E b \in Bufs : mat[b].live /\ mat[b].data_ = h

\* the last of the buffers has been destroyed and has freed the second of
\* two allocations that were live together
C9_Witness ==
  /\ last.op = "~TMatrix"
  /\ devOps = <<CudaFree(2)>>
  /\ \A b \in Bufs : ~mat[b].live
  /\ \A h \in Handles : heap[h] = "free"

\* C10: the move constructor gives the new buffer the source's rows, cols,
\* beam, batch, capacity and handle, leaves the source empty (capacity 0,
\* null handle, all-zero shape) and issues no device call.
C10_MoveConstruct ==
  [][\A b \in {c \in Bufs : last'.op = "TMatrixMove" /\ last'.b = c},
        m \in Bufs :
       DoMoveConstruct(b, m) =>
         /\ Shape(mat'[b]) = Shape(mat[m])
         /\ mat'[b].arrSize_ = mat[m].arrSize_
         /\ mat'[b].data_ = mat[m].data_
         /\ mat'[b].live
         /\ mat'[m].live
         /\ AllZero(mat'[m])
         /\ mat'[m].arrSize_ = 0
         /\ mat'[m].data_ = NullPtr
         /\ devOps' = <<>>
         /\ heap' = heap]_vars

\* an allocated buffer has been moved from
C10_Witness ==
  /\ last.op = "TMatrixMove"
  /\ \E b, m \in Bufs :
       /\ last.b = b
       /\ m # b
       /\ mat[b].data_ # NullPtr
       /\ mat[b].arrSize_ = 2
       /\ mat[m] = TMatrix

\* C16: a Resize of a buffer that holds an allocation to an element count
\* above its capacity allocates exactly one new region of the new element
\* count, copies size() elements (the element count of the shape before the
\* call, not the capacity) from the start of the old region to the start of
\* the new one, frees the old region after the copy is issued, and leaves
\* the new region as handle, the new element count as capacity and the
\* arguments as shape.
C16_ResizeGrows ==
  [][\A b \in {c \in Bufs : last'.op = "Resize" /\ last'.b = c},
        rows, cols, beam, batches \in Dims :
       (DoResize(b, rows, cols, beam, batches)
          /\ mat[b].data_ # NullPtr
          /\ rows * cols * beam * batches > mat[b].arrSize_) =>
         /\ mat'[b].arrSize_ = rows * cols * beam * batches
         /\ Shape(mat'[b]) = <<rows, cols, beam, batches>>
         /\ mat'[b].data_ \in Handles
         /\ mat'[b].data_ # mat[b].data_
         /\ heap[mat'[b].data_] = "free"
         /\ heap'[mat'[b].data_] = "live"
         /\ heap'[mat[b].data_] = "free"
         /\ devOps' = <<CudaMalloc(mat'[b].data_,
                                   rows * cols * beam * batches),
                        CudaMemcpyAsync(mat'[b].data_, mat[b].data_,
                                        Elems(mat[b])),
                        CudaFree(mat[b].data_)>>]_vars

\* a buffer whose capacity 4 exceeded its element count 2 has been grown to
\* 8 elements: 2 elements were copied
C16_Witness ==
  /\ last.op = "Resize"
  /\ mat[1].arrSize_ = 8
  /\ Len(devOps) = 3
  /\ devOps[2].call = "cudaMemcpyAsync"
  /\ devOps[2].n = 2
  /\ devOps[3] = CudaFree(devOps[2].src)

\* C17 as claimed: across every single operation on a buffer its capacity
\* stays the same, increases or becomes 0; only Resize increases it; Reshape
\* and Reshape2D leave capacity and handle unchanged; Reshape2D leaves the
\* element count and cols unchanged and sets rows = rows*beam*batch and
\* beam = batch = 1.
C17_Original ==
  [][\A b \in Bufs :
       (mat[b].live /\ mat'[b].live) =>
         /\ \/ mat'[b].arrSize_ >= mat[b].arrSize_
            \/ mat'[b].arrSize_ = 0
         /\ mat'[b].arrSize_ > mat[b].arrSize_ =>
              (last'.op = "Resize" /\ last'.b = b)
         /\ (last'.b = b /\ last'.op \in {"Reshape", "Reshape2D"}) =>
              /\ mat'[b].arrSize_ = mat[b].arrSize_
              /\ mat'[b].data_ = mat[b].data_
         /\ (last'.b = b /\ last'.op = "Reshape2D") =>
              /\ Elems(mat'[b]) = Elems(mat[b])
              /\ Shape(mat'[b]) = <<mat[b].rows_ * mat[b].beam_
                                      * mat[b].batches_,
                                    mat[b].cols_, 1, 1>>]_vars

\* C17 as amended: across every single Resize, Reshape, Reshape2D and Clear
\* the capacity of the buffer stays the same, increases or becomes 0; of
\* these only Resize increases it; Reshape and Reshape2D leave capacity and
\* handle unchanged; Reshape2D leaves the element count and cols unchanged
\* and sets rows = rows*beam*batch and beam = batch = 1. A swap exchanges
\* the capacities of its two buffers, so each of them can increase or
\* decrease to a non-zero value, and no other buffer is changed by an
\* operation.
C17_Amended ==
  [][\A b \in Bufs :
       (mat[b].live /\ mat'[b].live) =>
         /\ last'.op # "swap" =>
              /\ \/ mat'[b].arrSize_ >= mat[b].arrSize_
                 \/ mat'[b].arrSize_ = 0
              /\ mat'[b].arrSize_ > mat[b].arrSize_ =>
                   (last'.op = "Resize" /\ last'.b = b)
         /\ last'.op = "swap" =>
              \/ mat'[b] = mat[b]
              \/ \E o \in Bufs \ {b} : mat'[b] = mat[o] /\ mat'[o] = mat[b]
         /\ (last'.b = b /\ last'.op \in {"Reshape", "Reshape2D"}) =>
              /\ mat'[b].arrSize_ = mat[b].arrSize_
              /\ mat'[b].data_ = mat[b].data_
         /\ (last'.b = b /\ last'.op = "Reshape2D") =>
              /\ Elems(mat'[b]) = Elems(mat[b])
              /\ Shape(mat'[b]) = <<mat[b].rows_ * mat[b].beam_
                                      * mat[b].batches_,
                                    mat[b].cols_, 1, 1>>]_vars

\* a Reshape2D has folded a zero beam into rows and kept the capacity
C17_Witness ==
  /\ last.op = "Reshape2D"
  /\ \E b \in Bufs :
       /\ last.b = b
       /\ Shape(mat[b]) = <<0, 1, 1, 1>>
       /\ mat[b].arrSize_ = 2
       /\ mat[b].data_ # NullPtr

\* C18: in every state reached by constructions, Resize, Reshape,
\* Reshape2D, Clear and swap the handle of a buffer is non-null if and only
\* if its capacity is > 0, also after a sized construction or a first
\* Resize with element count 0; a Clear of an empty buffer leaves it empty
\* and changes no allocation.
C18_HandleIffCapacity ==
  [][/\ \A b \in Bufs :
          mat'[b].live => (mat'[b].data_ # NullPtr <=> mat'[b].arrSize_ > 0)
     /\ \A b \in {c \in Bufs : last'.op = "Clear" /\ last'.b = c} :
          (DoClear(b) /\ mat[b] = TMatrix) =>
            /\ mat'[b] = TMatrix
            /\ heap' = heap
            /\ NoDeviceWork(devOps')]_vars

\* a sized construction with element count 0 has left a null handle next to
\* a buffer that holds an allocation
C18_Witness ==
  /\ last.op = "TMatrixSized"
  /\ \E b, o \in Bufs :
       /\ last.b = b
       /\ Shape(mat[b]) = <<2, 0, 1, 1>>
       /\ mat[b].arrSize_ = 0
       /\ mat[b].data_ = NullPtr
       /\ mat[o].live
       /\ mat[o].arrSize_ = 2
       /\ mat[o].data_ # NullPtr

\* C20: for every buffer state, operator bool yields false if and only if
\* the element count rows*cols*beam*batch (size(), a size_t) is 0, also for
\* element counts that do not fit in a signed 32-bit integer.
C20_BoolIffNonEmpty ==
  conv.called => (conv.result = FALSE <=> sizeWide(conv.obj) = SizeTZero)

(* =========================== specifications ============================ *)

Init ==
  /\ InitMain
  /\ InitMatrix(0)

Next ==
  \/ GodInit
  \/ ReadLine
  \/ SliceStep
  \/ EndCycle
  \/ EndOfInput
  \/ FlushStep
  \/ EndFlush
  \/ Cleanup
  \/ WorkerTake
  \/ \E i \in DOMAIN tasks : TaskReturn(i)
  \/ \E i \in DOMAIN tasks : TaskThrow(i)

Spec == Init /\ [][Next]_vars

\* main keeps running and the workers are scheduled fairly: a free worker
\* takes a waiting task and a running task ends
Fairness ==
  /\ WF_vars(GodInit \/ ReadLine \/ SliceStep \/ EndCycle \/ EndOfInput
               \/ FlushStep \/ EndFlush \/ Cleanup)
  /\ WF_vars(WorkerTake)
  /\ WF_vars(\E i \in DOMAIN tasks : TaskReturn(i) \/ TaskThrow(i))

SpecFair == Spec /\ Fairness

\* no main() is running: the TMatrix operations are applied in any order
InitIdle ==
  /\ pc = "idle"
  /\ stream = <<>>
  /\ lineNum = 0
  /\ miniSize = 0
  /\ maxiSize = 0
  /\ maxiBatch = <<>>
  /\ enqueued = <<>>
  /\ cycleStart = <<>>
  /\ cycleOut = <<>>
  /\ tasks = <<>>

\* operations on one TMatrix object
InitBuffers ==
  /\ InitIdle
  /\ InitMatrix(1)

NextMatrix ==
  \/ \E b \in Bufs : DoConstruct(b)
  \/ \E b \in Bufs, rows, cols, beam, batches \in Dims, zero \in BOOLEAN :
       DoConstructSized(b, rows, cols, beam, batches, zero)
  \/ \E b \in Bufs : DoDestroy(b)
  \/ \E b \in Bufs, rows, cols, beam, batches \in Dims :
       DoResize(b, rows, cols, beam, batches)
  \/ \E b \in Bufs, rows, cols, beam, batches \in Dims :
       DoReshape(b, rows, cols, beam, batches)
  \/ \E b \in Bufs : DoReshape2D(b)
  \/ \E b \in Bufs : DoClear(b)

SpecMatrix == InitBuffers /\ [][NextMatrix]_vars

\* operations on and between NBuf TMatrix objects
InitObjects ==
  /\ InitIdle
  /\ InitMatrix(NBuf)

NextObjects ==
  \/ \E b \in Bufs : DoConstruct(b)
  \/ \E b \in Bufs, rows \in Dims, cols, beam, batches \in PairDims,
          zero \in BOOLEAN :
       DoConstructSized(b, rows, cols, beam, batches, zero)
  \/ \E b, m \in Bufs : DoCopyConstruct(b, m)
  \/ \E b, m \in Bufs : DoMoveConstruct(b, m)
  \/ \E b \in Bufs : DoDestroy(b)
  \/ \E b \in Bufs, rows \in Dims, cols, beam, batches \in PairDims :
       DoResize(b, rows, cols, beam, batches)
  \/ \E b \in Bufs, rows \in Dims, cols, beam, batches \in PairDims :
       DoReshape(b, rows, cols, beam, batches)
  \/ \E b \in Bufs : DoReshape2D(b)
  \/ \E b \in Bufs : DoClear(b)
  \/ \E b, o \in Bufs : DoSwap(b, o)

SpecObjects == InitObjects /\ [][NextObjects]_vars

\* operator bool applied to one object of any shape in WideShapes
InitBool ==
  /\ InitIdle
  /\ mat = <<>>
  /\ heap = [h \in Handles |-> "free"]
  /\ devOps = <<>>
  /\ last = [op |-> "none", b |-> 0, ok |-> TRUE]
  /\ conv \in [obj : WideShapes, called : {FALSE}, result : {FALSE}]

NextBool == DoOperatorBool

SpecBool == InitBool /\ [][NextBool]_vars

====
